---- MODULE Spec2Model ----
(***************************************************************************)
(* multimerger.py: the GitHub API client (GitHubAPIClient), the diff       *)
(* matcher (PRMatcher) and the interactive driver (main).                  *)
(*                                                                         *)
(* Text (URLs, titles, diffs, answers typed at a prompt) is a sequence of  *)
(* one-character strings, so that rstrip, split, strip, lower, startswith  *)
(* and the substring test work on characters as they do in Python.         *)
(***************************************************************************)
EXTENDS Integers, Sequences, FiniteSets, TLC

VARIABLES
    pc,               \* position of main(), or "api" when the client is used as a library
    client,           \* "none" before GitHubAPIClient(...) returned, else the client's token
    prs,              \* main's `prs`: search result, then the matching PRs
    example_diff,     \* main's `example_diff`
    k,                \* find_matching_prs: index of the next candidate of its for loop
    matching_prs,     \* find_matching_prs: `matching_prs`
    fetched,          \* the diff text each candidate's get_pr_diff returned, in order
    i,                \* review loop: index of the current match of `for pr in prs`
    auto_approve_all, \* main's `auto_approve_all`
    requests,         \* every HTTP request the session issued, in order
    out,              \* everything printed (and every prompt shown), in order
    exit_code,        \* the exit status of the process, -1 while it runs
    typed,            \* what the user typed at the last prompt (input()'s return value)
    pr_url,           \* library use: the URL handed to the client's operations
    ret_diff,         \* library use: outcome of get_pr_diff(pr_url)
    ret_approve,      \* library use: outcome of approve_pr(pr_url)
    ret_merge,        \* library use: outcome of merge_pr(pr_url)
    arg_title_prefix, \* args.title_prefix; library use: search_assigned_prs' argument
    arg_example_pr,   \* args.example_pr
    arg_token,        \* args.token
    GITHUB_TOKEN,     \* os.getenv('GITHUB_TOKEN')
    assigned_prs,     \* find_matching_prs: `assigned_prs`, the candidates it was given
    remote_items,     \* library use: the 'items' of the remote's search result
    ret_search,       \* library use: outcome of search_assigned_prs(arg_title_prefix)
    color_input,      \* library use: the text handed to colorize_diff
    ret_color         \* library use: what colorize_diff(color_input) returned

vars == <<pc, client, prs, example_diff, k, matching_prs, fetched, i,
          auto_approve_all, requests, out, exit_code, typed,
          pr_url, ret_diff, ret_approve, ret_merge,
          arg_title_prefix, arg_example_pr, arg_token, GITHUB_TOKEN, assigned_prs,
          remote_items, ret_search, color_input, ret_color>>

driverVars == <<client, prs, example_diff, k, matching_prs, fetched, i,
                auto_approve_all, out, exit_code, typed, assigned_prs>>

\* the command line and the environment: nothing assigns to them
inputVars == <<arg_title_prefix, arg_example_pr, arg_token, GITHUB_TOKEN>>

searchVars == <<remote_items, ret_search>>

colorVars == <<color_input, ret_color>>

apiVars == <<pr_url, ret_diff, ret_approve, ret_merge, searchVars, colorVars>>

(***************************************************************************)
(* Bounds of the model.                                                    *)
(***************************************************************************)
MaxItems == 3       \* longest search response (items of the remote result)
MaxPathSegs == 4    \* most path segments after the host in a generated URL
MaxDiffLen == 5     \* longest text handed to colorize_diff used as a library

(***************************************************************************)
(* Python string builtins, on sequences of characters.                     *)
(***************************************************************************)
Range(s) == {s[j] : j \in 1..Len(s)}

\* str.rstrip(ch): drop every trailing occurrence of ch
RECURSIVE rstrip(_, _)
rstrip(s, ch) ==
    IF s # <<>> /\ s[Len(s)] = ch THEN rstrip(SubSeq(s, 1, Len(s) - 1), ch) ELSE s

\* str.split(sep) for a one-character separator: never empty, keeps empty fields
RECURSIVE split(_, _)
split(s, sep) ==
    IF \A j \in 1..Len(s) : s[j] # sep
    THEN <<s>>
    ELSE LET p == CHOOSE j \in 1..Len(s) : s[j] = sep /\ \A h \in 1..(j - 1) : s[h] # sep
         IN  <<SubSeq(s, 1, p - 1)>> \o split(SubSeq(s, p + 1, Len(s)), sep)

\* `sub in s` for strings
contains(sub, s) ==
    \E j \in 0..(Len(s) - Len(sub)) : SubSeq(s, j + 1, j + Len(sub)) = sub

\* str.startswith(prefix)
startswith(s, prefix) ==
    Len(prefix) <= Len(s) /\ SubSeq(s, 1, Len(prefix)) = prefix

\* the characters str.strip() removes (those of them the model's texts use)
Whitespace == {" ", "\n", "\t"}

RECURSIVE lstrip_ws(_)
lstrip_ws(s) ==
    IF s # <<>> /\ s[1] \in Whitespace THEN lstrip_ws(SubSeq(s, 2, Len(s))) ELSE s

RECURSIVE rstrip_ws(_)
rstrip_ws(s) ==
    IF s # <<>> /\ s[Len(s)] \in Whitespace THEN rstrip_ws(SubSeq(s, 1, Len(s) - 1)) ELSE s

\* str.strip()
strip(s) == rstrip_ws(lstrip_ws(s))

\* str.lower(), on the letters the model's answers use
lower_char(c) ==
    CASE c = "Y" -> "y"
      [] c = "E" -> "e"
      [] c = "S" -> "s"
      [] c = "A" -> "a"
      [] c = "N" -> "n"
      [] OTHER -> c

lower(s) == [j \in 1..Len(s) |-> lower_char(s[j])]

\* sep.join(fields), used to build the model's URLs
RECURSIVE join(_, _)
join(fields, sep) ==
    IF fields = <<>> THEN <<>>
    ELSE IF Len(fields) = 1 THEN fields[1]
    ELSE fields[1] \o <<sep>> \o join(Tail(fields), sep)

(***************************************************************************)
(* Literals of the source.                                                 *)
(***************************************************************************)
github_com == <<"g", "i", "t", "h", "u", "b", ".", "c", "o", "m">>
pull == <<"p", "u", "l", "l">>
yes == <<"y", "e", "s">>

api_github_com == <<"a", "p", "i", ".">> \o github_com
gitlab_com == <<"g", "i", "t", "l", "a", "b", ".", "c", "o", "m">>
https == <<"h", "t", "t", "p", "s", ":">>
repos == <<"r", "e", "p", "o", "s">>
issues == <<"i", "s", "s", "u", "e", "s">>

(***************************************************************************)
(* colorize_diff.  An ANSI escape sequence is one element of the text.     *)
(***************************************************************************)
BOLD == "\\033[1m"
CYAN == "\\033[36m"
GREEN == "\\033[32m"
RED == "\\033[31m"
RESET == "\\033[0m"

\* colorize_line as it would be with the tests for `+` and `-` ahead of those for
\* `+++` and `---`
colorize_line_sign_first(line) ==
    IF startswith(line, <<"+">>) THEN <<GREEN>> \o line \o <<RESET>>
    ELSE IF startswith(line, <<"-">>) THEN <<RED>> \o line \o <<RESET>>
    ELSE IF startswith(line, <<"+", "+", "+">>) \/ startswith(line, <<"-", "-", "-">>)
    THEN <<BOLD>> \o line \o <<RESET>>
    ELSE IF startswith(line, <<"@", "@">>) THEN <<CYAN>> \o line \o <<RESET>>
    ELSE line

colorize_line(line) ==
    IF startswith(line, <<"+", "+", "+">>) \/ startswith(line, <<"-", "-", "-">>)
    THEN <<BOLD>> \o line \o <<RESET>>
    ELSE IF startswith(line, <<"@", "@">>) THEN <<CYAN>> \o line \o <<RESET>>
    ELSE IF startswith(line, <<"+">>) THEN <<GREEN>> \o line \o <<RESET>>
    ELSE IF startswith(line, <<"-">>) THEN <<RED>> \o line \o <<RESET>>
    ELSE line

colorize_diff(diff_text) ==
    LET lines == split(diff_text, "\n")
        colored_lines == [j \in 1..Len(lines) |-> colorize_line(lines[j])]
    IN  join(colored_lines, "\n")

(***************************************************************************)
(* GitHubAPIClient.  An operation is an operator of its arguments and of   *)
(* the remote's response; it yields what it raised, the HTTP requests it   *)
(* sent before that, and its return value.                                 *)
(***************************************************************************)
None == "None"

\* GitHubAPIClient.__init__: the token the client ends up with (None or "" raise)
client_token(token, env_token) ==
    IF token # None /\ token # "" THEN token ELSE env_token

Request(method, api, owner, repo, pr_number, data) ==
    [method |-> method, api |-> api, owner |-> owner, repo |-> repo,
     pr_number |-> pr_number, data |-> data]

\* str(e) of the ValueError of lines 67, 87 and 107
invalid_url_text == <<"Invalid GitHub PR URL format">>

\* str(e) of the exception of a failed request: raise_for_status() writes
\* "<status> ... Error: <reason> for url: <url>"; a connection that broke leaves a
\* text without the URL
error_text(req, resp) ==
    IF resp.error = "HTTPError"
    THEN <<"Error for url", req.api>> \o req.owner \o req.repo \o req.pr_number
    ELSE <<"Connection aborted.">>

\* _make_request: one request; raise_for_status() raises on a failed response
make_request(req, resp) ==
    IF resp.ok
    THEN [raised |-> "none", sent |-> <<req>>, value |-> resp.body, text |-> <<>>]
    ELSE [raised |-> "RequestException", sent |-> <<req>>, value |-> <<>>,
          text |-> error_text(req, resp)]

\* search_assigned_prs as it would be with `title_prefix in pr['title']`
search_assigned_prs_substring(title_prefix, resp) ==
    LET response == make_request(
            Request("GET", "search/issues", <<>>, <<>>, <<>>, "is:pr is:open assignee:@me"),
            resp)
    IN  IF response.raised # "none" THEN response
        ELSE [response EXCEPT
                !.value = SelectSeq(response.value,
                                    LAMBDA pr : contains(title_prefix, pr.title))]

search_assigned_prs(title_prefix, resp) ==
    LET response == make_request(
            Request("GET", "search/issues", <<>>, <<>>, <<>>, "is:pr is:open assignee:@me"),
            resp)
    IN  IF response.raised # "none" THEN response
        ELSE [response EXCEPT
                !.value = SelectSeq(response.value,
                                    LAMBDA pr : startswith(pr.title, title_prefix))]

\* get_pr_diff as it would be with parts[-2] for the PR number
get_pr_diff_number_off(url, resp) ==
    LET parts == split(rstrip(url, "/"), "/")
    IN  IF Len(parts) < 7 \/ ~contains(github_com, url) \/ pull \notin Range(parts)
        THEN [raised |-> "ValueError", sent |-> <<>>, value |-> <<>>,
              text |-> invalid_url_text]
        ELSE LET owner == parts[Len(parts) - 3]
                 repo == parts[Len(parts) - 2]
                 pr_number == parts[Len(parts) - 1]
                 req == Request("GET", "pulls", owner, repo, pr_number, "diff")
             IN  IF resp.ok
                 THEN [raised |-> "none", sent |-> <<req>>, value |-> resp.body, text |-> <<>>]
                 ELSE [raised |-> "RequestException", sent |-> <<req>>, value |-> <<>>,
          text |-> error_text(req, resp)]

\* get_pr_diff as it would be with the test of lines 66-67 after the request
get_pr_diff_checks_late(url, resp) ==
    LET parts == split(rstrip(url, "/"), "/")
        owner == parts[Len(parts) - 3]
        repo == parts[Len(parts) - 2]
        pr_number == parts[Len(parts)]
        req == Request("GET", "pulls", owner, repo, pr_number, "diff")
    IN  IF ~resp.ok
        THEN [raised |-> "RequestException", sent |-> <<req>>, value |-> <<>>,
                       text |-> error_text(req, resp)]
        ELSE IF Len(parts) < 7 \/ ~contains(github_com, url) \/ pull \notin Range(parts)
        THEN [raised |-> "ValueError", sent |-> <<req>>, value |-> <<>>,
              text |-> invalid_url_text]
        ELSE [raised |-> "none", sent |-> <<req>>, value |-> resp.body, text |-> <<>>]

get_pr_diff(url, resp) ==
    LET parts == split(rstrip(url, "/"), "/")
    IN  IF Len(parts) < 7 \/ ~contains(github_com, url) \/ pull \notin Range(parts)
        THEN [raised |-> "ValueError", sent |-> <<>>, value |-> <<>>,
              text |-> invalid_url_text]
        ELSE LET owner == parts[Len(parts) - 3]
                 repo == parts[Len(parts) - 2]
                 pr_number == parts[Len(parts)]
                 req == Request("GET", "pulls", owner, repo, pr_number, "diff")
             IN  IF resp.ok
                 THEN [raised |-> "none", sent |-> <<req>>, value |-> resp.body, text |-> <<>>]
                 ELSE [raised |-> "RequestException", sent |-> <<req>>, value |-> <<>>,
          text |-> error_text(req, resp)]

\* approve_pr as it would be without rstrip('/')
approve_pr_no_rstrip(url, resp) ==
    LET parts == split(url, "/")
    IN  IF Len(parts) < 7 \/ ~contains(github_com, url) \/ pull \notin Range(parts)
        THEN [raised |-> "ValueError", sent |-> <<>>, value |-> <<>>,
              text |-> invalid_url_text]
        ELSE LET owner == parts[Len(parts) - 3]
                 repo == parts[Len(parts) - 2]
                 pr_number == parts[Len(parts)]
                 r == make_request(
                          Request("POST", "reviews", owner, repo, pr_number, "APPROVE"), resp)
             IN  [r EXCEPT !.value = <<>>]

approve_pr(url, resp) ==
    LET parts == split(rstrip(url, "/"), "/")
    IN  IF Len(parts) < 7 \/ ~contains(github_com, url) \/ pull \notin Range(parts)
        THEN [raised |-> "ValueError", sent |-> <<>>, value |-> <<>>,
              text |-> invalid_url_text]
        ELSE LET owner == parts[Len(parts) - 3]
                 repo == parts[Len(parts) - 2]
                 pr_number == parts[Len(parts)]
                 r == make_request(
                          Request("POST", "reviews", owner, repo, pr_number, "APPROVE"), resp)
             IN  [r EXCEPT !.value = <<>>]

\* merge_pr as it would be without the test `'pull' not in parts`
merge_pr_no_pull_check(url, resp) ==
    LET parts == split(rstrip(url, "/"), "/")
    IN  IF Len(parts) < 7 \/ ~contains(github_com, url)
        THEN [raised |-> "ValueError", sent |-> <<>>, value |-> <<>>,
              text |-> invalid_url_text]
        ELSE LET owner == parts[Len(parts) - 3]
                 repo == parts[Len(parts) - 2]
                 pr_number == parts[Len(parts)]
                 r == make_request(
                          Request("PUT", "merge", owner, repo, pr_number, "squash"), resp)
             IN  [r EXCEPT !.value = <<>>]

merge_pr(url, resp) ==
    LET parts == split(rstrip(url, "/"), "/")
    IN  IF Len(parts) < 7 \/ ~contains(github_com, url) \/ pull \notin Range(parts)
        THEN [raised |-> "ValueError", sent |-> <<>>, value |-> <<>>,
              text |-> invalid_url_text]
        ELSE LET owner == parts[Len(parts) - 3]
                 repo == parts[Len(parts) - 2]
                 pr_number == parts[Len(parts)]
                 r == make_request(
                          Request("PUT", "merge", owner, repo, pr_number, "squash"), resp)
             IN  [r EXCEPT !.value = <<>>]

(***************************************************************************)
(* The client used as a library: each operation applied once to pr_url.    *)
(***************************************************************************)
\* the requests an operation sent, each with the remote's answer to it
Exchange(sent, resp) ==
    [n \in 1..Len(sent) |->
        [method |-> sent[n].method, api |-> sent[n].api, owner |-> sent[n].owner,
         repo |-> sent[n].repo, pr_number |-> sent[n].pr_number, data |-> sent[n].data,
         ok |-> resp.ok]]

NotCalled == [raised |-> "not called", sent |-> <<>>, value |-> <<>>, text |-> <<>>]

Hosts == {github_com, gitlab_com}
PathSegments == {<<"o">>, <<"r">>, pull, <<"5">>}
PathSeqs == UNION {[1..n -> PathSegments] : n \in 0..MaxPathSegs}

\* https://<host>/<path...> with or without a trailing slash
UrlInputs ==
    {join(<<https, <<>>, host>> \o path, "/") \o trail :
        host \in Hosts, path \in PathSeqs, trail \in {<<>>, <<"/">>}}

DiffTexts == {<<"x", "\n">>, <<"x">>, <<"y">>}

\* what the remote may answer to a diff request
DiffResponses ==
    {[ok |-> TRUE, body |-> d, error |-> "none"] : d \in DiffTexts}
        \cup {[ok |-> FALSE, body |-> <<>>, error |-> "HTTPError"]}

\* what may come of the approve request of the review loop: an answer or an error
\* status
ApproveResponses ==
    {[ok |-> TRUE, body |-> <<>>, error |-> "none"],
     [ok |-> FALSE, body |-> <<>>, error |-> "HTTPError"]}

\* what may come of an approve or a merge request: an answer, an error status, or a
\* connection that broke
PlainResponses ==
    {[ok |-> TRUE, body |-> <<>>, error |-> "none"],
     [ok |-> FALSE, body |-> <<>>, error |-> "HTTPError"],
     [ok |-> FALSE, body |-> <<>>, error |-> "ConnectionError"]}

InitUrl ==
    /\ pc = "api"
    /\ client = "t"
    /\ prs = <<>>
    /\ example_diff = <<>>
    /\ k = 1
    /\ matching_prs = <<>>
    /\ fetched = <<>>
    /\ i = 1
    /\ auto_approve_all = FALSE
    /\ requests = <<>>
    /\ out = <<>>
    /\ exit_code = -1
    /\ typed = <<>>
    /\ pr_url \in UrlInputs
    /\ ret_diff = NotCalled
    /\ ret_approve = NotCalled
    /\ ret_merge = NotCalled
    /\ arg_title_prefix = <<>>
    /\ arg_example_pr = <<>>
    /\ arg_token = "t"
    /\ GITHUB_TOKEN = None
    /\ assigned_prs = <<>>
    /\ remote_items = <<>>
    /\ ret_search = NotCalled
    /\ color_input = <<>>
    /\ ret_color = NotCalled

CallGetPrDiff ==
    /\ pc = "api"
    /\ ret_diff = NotCalled
    /\ \E resp \in {[ok |-> TRUE, body |-> <<"x">>, error |-> "none"],
                     [ok |-> FALSE, body |-> <<>>, error |-> "HTTPError"]} :
        LET r == get_pr_diff(pr_url, resp)
        IN  /\ ret_diff' = r
            /\ requests' = requests \o Exchange(r.sent, resp)
    /\ UNCHANGED <<pc, driverVars, inputVars, searchVars, colorVars,
                   pr_url, ret_approve, ret_merge>>

CallApprovePr ==
    /\ pc = "api"
    /\ ret_approve = NotCalled
    /\ \E resp \in PlainResponses :
        LET r == approve_pr(pr_url, resp)
        IN  /\ ret_approve' = r
            /\ requests' = requests \o Exchange(r.sent, resp)
    /\ UNCHANGED <<pc, driverVars, inputVars, searchVars, colorVars,
                   pr_url, ret_diff, ret_merge>>

CallMergePr ==
    /\ pc = "api"
    /\ ret_merge = NotCalled
    /\ \E resp \in PlainResponses :
        LET r == merge_pr(pr_url, resp)
        IN  /\ ret_merge' = r
            /\ requests' = requests \o Exchange(r.sent, resp)
    /\ UNCHANGED <<pc, driverVars, inputVars, searchVars, colorVars,
                   pr_url, ret_diff, ret_approve>>

NextUrl == CallGetPrDiff \/ CallApprovePr \/ CallMergePr

SpecUrl == InitUrl /\ [][NextUrl]_vars

(***************************************************************************)
(* main(): the inputs of a run.                                            *)
(***************************************************************************)
WebUrl(host, owner, repo, kind, n) == join(<<https, <<>>, host, owner, repo, kind, n>>, "/")

RepoUrl(owner, repo) == join(<<https, <<>>, api_github_com, repos, owner, repo>>, "/")

Item(title, kind, n, number) ==
    [title |-> title,
     html_url |-> WebUrl(github_com, <<"o">>, <<"r">>, kind, n),
     repository_url |-> RepoUrl(<<"o">>, <<"r">>),
     number |-> number]

\* the issue/PR objects the remote search may return
RemoteItems ==
    {Item(<<"a", "b", "c">>, pull, <<"1">>, 1),
     Item(<<"a", "b", "c">>, pull, <<"2">>, 2),
     Item(<<"x", "b", "c">>, pull, <<"3">>, 3),
     Item(<<"a", "b", "c">>, issues, <<"4">>, 4),
     Item(<<"a", "b", "c">>, pull, <<"5">>, 5)}

ItemLists ==
    {items \in UNION {[1..n -> RemoteItems] : n \in 0..MaxItems} :
        \A a, b \in 1..Len(items) : a # b => items[a] # items[b]}

\* what the remote may answer to the search request
SearchResponses ==
    {[ok |-> TRUE, body |-> items, error |-> "none"] : items \in ItemLists}
        \cup {[ok |-> FALSE, body |-> <<>>, error |-> "HTTPError"]}

\* args.title_prefix
TitlePrefixes == {<<"a", "b">>, <<"A", "B">>}

\* args.example_pr
ExampleUrls ==
    {WebUrl(github_com, <<"o">>, <<"r">>, pull, <<"9">>) \o <<"/">>,
     WebUrl(github_com, <<"o">>, <<"r">>, issues, <<"9">>),
     WebUrl(gitlab_com, <<"o">>, <<"r">>, pull, <<"9">>)}

\* args.token and os.getenv('GITHUB_TOKEN')
Tokens == {None, "", "t"}

\* <<args.token, os.getenv('GITHUB_TOKEN')>>: no credential at all, one from the
\* command line only, one from the environment only
Credentials ==
    {c \in Tokens \X Tokens : c[1] \in {None, ""} \/ c[2] = None}
        \ {<<"", "t">>}

\* what the user may type at a prompt
Answers ==
    {<<"y">>, <<" ", "Y", "E", "S">>, <<"y", "y">>, <<"n">>, <<>>,
     <<"s">>, <<"S", " ">>, <<"a">>, <<" ", "A">>}

(***************************************************************************)
(* search_assigned_prs used as a library: applied once to arg_title_prefix *)
(* against a remote whose search result is remote_items.                   *)
(***************************************************************************)
abc_fix == <<"a", "b", "c", ":", " ", "f", "i", "x">>
xyz_other == <<"x", "y", "z", ":", " ", "o", "t", "h", "e", "r">>
abc_cleanup == <<"a", "b", "c", ":", " ", "c", "l", "e", "a", "n", "u", "p">>
abc_feature == <<"a", "b", "c", "-", "f", "e", "a", "t", "u", "r", "e">>

\* the PR objects of the remote of the library use; the last title is a short one
TitledItems ==
    {Item(abc_fix, pull, <<"1">>, 1),
     Item(xyz_other, pull, <<"2">>, 2),
     Item(abc_cleanup, pull, <<"3">>, 3),
     Item(abc_feature, pull, <<"4">>, 4),
     Item(<<"a", "b">>, pull, <<"5">>, 5)}

TitledItemLists == UNION {[1..n -> TitledItems] : n \in 0..MaxItems}

\* title_prefix of the library use: abc, ABC, bc and the empty prefix
SearchPrefixes == {<<"a", "b", "c">>, <<"A", "B", "C">>, <<"b", "c">>, <<>>}

InitSearch ==
    /\ pc = "api"
    /\ client = "t"
    /\ prs = <<>>
    /\ example_diff = <<>>
    /\ k = 1
    /\ matching_prs = <<>>
    /\ fetched = <<>>
    /\ i = 1
    /\ auto_approve_all = FALSE
    /\ requests = <<>>
    /\ out = <<>>
    /\ exit_code = -1
    /\ typed = <<>>
    /\ pr_url = <<>>
    /\ ret_diff = NotCalled
    /\ ret_approve = NotCalled
    /\ ret_merge = NotCalled
    /\ arg_title_prefix \in SearchPrefixes
    /\ arg_example_pr = <<>>
    /\ arg_token = "t"
    /\ GITHUB_TOKEN = None
    /\ assigned_prs = <<>>
    /\ remote_items \in TitledItemLists
    /\ ret_search = NotCalled
    /\ color_input = <<>>
    /\ ret_color = NotCalled

\* the remote answers the search with its items, or the request fails
CallSearchAssignedPrs ==
    /\ pc = "api"
    /\ ret_search = NotCalled
    /\ \E resp \in {[ok |-> TRUE, body |-> remote_items, error |-> "none"],
                     [ok |-> FALSE, body |-> <<>>, error |-> "HTTPError"]} :
        LET r == search_assigned_prs(arg_title_prefix, resp)
        IN  /\ ret_search' = r
            /\ requests' = requests \o Exchange(r.sent, resp)
    /\ UNCHANGED <<pc, driverVars, inputVars, remote_items, colorVars,
                   pr_url, ret_diff, ret_approve, ret_merge>>

NextSearch == CallSearchAssignedPrs

SpecSearch == InitSearch /\ [][NextSearch]_vars

(***************************************************************************)
(* colorize_diff used as a library: applied once to color_input.           *)
(***************************************************************************)
\* the characters of the texts: the markers of a diff, a letter and the line break
DiffChars == {"+", "-", "@", "x", "\n"}

ColorInputs == UNION {[1..n -> DiffChars] : n \in 0..MaxDiffLen}

InitColor ==
    /\ pc = "api"
    /\ client = "t"
    /\ prs = <<>>
    /\ example_diff = <<>>
    /\ k = 1
    /\ matching_prs = <<>>
    /\ fetched = <<>>
    /\ i = 1
    /\ auto_approve_all = FALSE
    /\ requests = <<>>
    /\ out = <<>>
    /\ exit_code = -1
    /\ typed = <<>>
    /\ pr_url = <<>>
    /\ ret_diff = NotCalled
    /\ ret_approve = NotCalled
    /\ ret_merge = NotCalled
    /\ arg_title_prefix = <<>>
    /\ arg_example_pr = <<>>
    /\ arg_token = "t"
    /\ GITHUB_TOKEN = None
    /\ assigned_prs = <<>>
    /\ remote_items = <<>>
    /\ ret_search = NotCalled
    /\ color_input \in ColorInputs
    /\ ret_color = NotCalled

CallColorizeDiff ==
    /\ pc = "api"
    /\ ret_color = NotCalled
    /\ ret_color' = [raised |-> "none", sent |-> <<>>, value |-> colorize_diff(color_input),
                     text |-> <<>>]
    /\ UNCHANGED <<pc, driverVars, requests, inputVars, searchVars, color_input,
                   pr_url, ret_diff, ret_approve, ret_merge>>

NextColor == CallColorizeDiff

SpecColor == InitColor /\ [][NextColor]_vars

(***************************************************************************)
(* main(): what it prints.                                                 *)
(***************************************************************************)
\* a printed line (or a prompt) about no PR in particular
Line(msg) == [msg |-> msg, repo |-> <<>>, number |-> 0, text |-> <<>>, at |-> 0]

\* a printed line with some text in it
TextLine(msg, text) == [msg |-> msg, repo |-> <<>>, number |-> 0, text |-> text, at |-> 0]

\* `repo_owner, repo_name = pr['repository_url'].split('/')[-2:]`
repo_name(pr) == LET p == split(pr.repository_url, "/") IN p[Len(p)]

\* a printed line naming "{repo_name} #{pr['number']}"; `at` is the position of the
\* review loop that printed it (0 outside the loop)
PrLine(msg, pr, at) ==
    [msg |-> msg, repo |-> repo_name(pr), number |-> pr.number, text |-> <<>>, at |-> at]

\* the prompt of the review loop at position `at`
PromptLine(at) ==
    [msg |-> "Approve and merge?", repo |-> <<>>, number |-> 0, text |-> <<>>, at |-> at]

\* a line of the review loop that names no PR
LoopLine(msg, at) == [msg |-> msg, repo |-> <<>>, number |-> 0, text |-> <<>>, at |-> at]

\* "Failed to process {repo_name} #{pr['number']}: {e}"; `e` is str(e)
FailedLine(pr, e, at) ==
    [msg |-> "Failed to process", repo |-> repo_name(pr), number |-> pr.number,
     text |-> e, at |-> at]

\* the handlers at the end of main: print, then sys.exit(1)
ErrorLine(raised) ==
    IF raised = "RequestException" THEN Line("API request failed") ELSE Line("Error")

Init ==
    /\ pc = "construct"
    /\ client = "none"
    /\ prs = <<>>
    /\ example_diff = <<>>
    /\ k = 1
    /\ matching_prs = <<>>
    /\ fetched = <<>>
    /\ i = 1
    /\ auto_approve_all = FALSE
    /\ requests = <<>>
    /\ out = <<>>
    /\ exit_code = -1
    /\ typed = <<>>
    /\ pr_url = <<>>
    /\ ret_diff = NotCalled
    /\ ret_approve = NotCalled
    /\ ret_merge = NotCalled
    /\ arg_title_prefix \in TitlePrefixes
    /\ arg_example_pr \in ExampleUrls
    /\ \E c \in Credentials : arg_token = c[1] /\ GITHUB_TOKEN = c[2]
    /\ assigned_prs = <<>>
    /\ remote_items = <<>>
    /\ ret_search = NotCalled
    /\ color_input = <<>>
    /\ ret_color = NotCalled

\* main returns (exit status 0) or sys.exit(1) after printing `line`
Exit(code, lines) ==
    /\ pc' = "exit"
    /\ exit_code' = code
    /\ out' = out \o lines

\* Construct as it would be with the test `self.token is None` at line 38
Construct_none_only ==
    /\ pc = "construct"
    /\ LET t == client_token(arg_token, GITHUB_TOKEN)
       IN  IF t = None
           THEN Exit(1, <<ErrorLine("ValueError")>>) /\ UNCHANGED client
           ELSE /\ client' = t
                /\ pc' = "search"
                /\ UNCHANGED <<out, exit_code>>
    /\ UNCHANGED <<prs, example_diff, k, matching_prs, fetched, i, auto_approve_all,
                   requests, typed, assigned_prs, inputVars, apiVars>>

\* line 156: client = GitHubAPIClient(token=args.token)
Construct ==
    /\ pc = "construct"
    /\ LET t == client_token(arg_token, GITHUB_TOKEN)
       IN  IF t = None \/ t = ""
           THEN Exit(1, <<ErrorLine("ValueError")>>) /\ UNCHANGED client
           ELSE /\ client' = t
                /\ pc' = "search"
                /\ UNCHANGED <<out, exit_code>>
    /\ UNCHANGED <<prs, example_diff, k, matching_prs, fetched, i, auto_approve_all,
                   requests, typed, assigned_prs, inputVars, apiVars>>

\* Search as it would be without the test `if not prs` of lines 160-162
Search_no_empty_check ==
    /\ pc = "search"
    /\ \E resp \in SearchResponses :
        LET r == search_assigned_prs(arg_title_prefix, resp)
        IN  /\ requests' = requests \o Exchange(r.sent, resp)
            /\ IF r.raised # "none"
               THEN Exit(1, <<ErrorLine(r.raised)>>) /\ UNCHANGED prs
               ELSE /\ prs' = r.value
                    /\ pc' = "fetch_example"
                    /\ UNCHANGED <<out, exit_code>>
    /\ UNCHANGED <<client, example_diff, k, matching_prs, fetched, i, auto_approve_all,
                   typed, assigned_prs, inputVars, apiVars>>

\* lines 158-162: the search, and the notice when nothing has the prefix
Search ==
    /\ pc = "search"
    /\ \E resp \in SearchResponses :
        LET r == search_assigned_prs(arg_title_prefix, resp)
        IN  /\ requests' = requests \o Exchange(r.sent, resp)
            /\ IF r.raised # "none"
               THEN Exit(1, <<ErrorLine(r.raised)>>) /\ UNCHANGED prs
               ELSE /\ prs' = r.value
                    /\ IF r.value = <<>>
                       THEN Exit(0, <<TextLine("No PRs assigned to you", arg_title_prefix)>>)
                       ELSE pc' = "fetch_example" /\ UNCHANGED <<out, exit_code>>
    /\ UNCHANGED <<client, example_diff, k, matching_prs, fetched, i, auto_approve_all,
                   typed, assigned_prs, inputVars, apiVars>>

\* lines 165-170: fetch the example PR's diff and show it
FetchExample ==
    /\ pc = "fetch_example"
    /\ \E resp \in DiffResponses :
        LET r == get_pr_diff(arg_example_pr, resp)
        IN  /\ requests' = requests \o Exchange(r.sent, resp)
            /\ IF r.raised # "none"
               THEN Exit(1, <<ErrorLine(r.raised)>>) /\ UNCHANGED example_diff
               ELSE /\ example_diff' = r.value
                    /\ out' = out \o <<TextLine("Example PR diff", colorize_diff(r.value))>>
                    /\ pc' = "confirm"
                    /\ UNCHANGED exit_code
    /\ UNCHANGED <<client, prs, k, matching_prs, fetched, i, auto_approve_all, typed,
                   assigned_prs, inputVars, apiVars>>

\* ConfirmExample as it would be with the test `confirmation in ['n', 'no']`
ConfirmExample_default_yes ==
    /\ pc = "confirm"
    /\ \E answer \in Answers :
        LET confirmation == lower(strip(answer))
        IN  /\ typed' = answer
            /\ IF confirmation \in {<<"n">>, <<"n", "o">>}
               THEN Exit(0, <<Line("Continue with this diff?"), Line("Aborted.")>>)
                    /\ UNCHANGED <<k, matching_prs, assigned_prs>>
               ELSE /\ out' = out \o <<Line("Continue with this diff?"),
                                       Line("Searching for matching PRs...")>>
                    /\ pc' = "matching"
                    /\ assigned_prs' = prs
                    /\ k' = 1
                    /\ matching_prs' = <<>>
                    /\ UNCHANGED exit_code
    /\ UNCHANGED <<client, prs, example_diff, fetched, i, auto_approve_all, requests,
                   inputVars, apiVars>>

\* lines 172-178: "Continue with this diff? (y/N): "
ConfirmExample ==
    /\ pc = "confirm"
    /\ \E answer \in Answers :
        LET confirmation == lower(strip(answer))
        IN  /\ typed' = answer
            /\ IF confirmation \notin {<<"y">>, yes}
               THEN Exit(0, <<Line("Continue with this diff?"), Line("Aborted.")>>)
                    /\ UNCHANGED <<k, matching_prs, assigned_prs>>
               ELSE /\ out' = out \o <<Line("Continue with this diff?"),
                                       Line("Searching for matching PRs...")>>
                    /\ pc' = "matching"
                    /\ assigned_prs' = prs
                    /\ k' = 1
                    /\ matching_prs' = <<>>
                    /\ UNCHANGED exit_code
    /\ UNCHANGED <<client, prs, example_diff, fetched, i, auto_approve_all, requests,
                   inputVars, apiVars>>

\* line 130 as it would be without the two strip() calls
diff_matches_exact(pr_diff, example) == pr_diff = example

\* line 130: `pr_diff.strip() == example_diff.strip()`
diff_matches(pr_diff, example) == strip(pr_diff) = strip(example)

\* MatchFetch as it would be with the fetch in a try/except that skips the candidate
MatchFetch_skips_failed ==
    /\ pc = "matching"
    /\ k <= Len(prs)
    /\ \E resp \in DiffResponses :
        LET r == get_pr_diff(prs[k].html_url, resp)
        IN  /\ requests' = requests \o Exchange(r.sent, resp)
            /\ IF r.raised # "none"
               THEN /\ k' = k + 1
                    /\ UNCHANGED <<pc, out, exit_code, matching_prs, fetched>>
               ELSE /\ fetched' = Append(fetched, r.value)
                    /\ matching_prs' = IF strip(r.value) = strip(example_diff)
                                       THEN Append(matching_prs, prs[k])
                                       ELSE matching_prs
                    /\ k' = k + 1
                    /\ UNCHANGED <<pc, out, exit_code>>
    /\ UNCHANGED <<client, prs, example_diff, i, auto_approve_all, typed,
                   assigned_prs, inputVars, apiVars>>

\* lines 128-131: one iteration of find_matching_prs' loop
MatchFetch ==
    /\ pc = "matching"
    /\ k <= Len(prs)
    /\ \E resp \in DiffResponses :
        LET r == get_pr_diff(prs[k].html_url, resp)
        IN  /\ requests' = requests \o Exchange(r.sent, resp)
            /\ IF r.raised # "none"
               THEN Exit(1, <<ErrorLine(r.raised)>>) /\ UNCHANGED <<k, matching_prs, fetched>>
               ELSE /\ fetched' = Append(fetched, r.value)
                    /\ matching_prs' = IF diff_matches(r.value, example_diff)
                                       THEN Append(matching_prs, prs[k])
                                       ELSE matching_prs
                    /\ k' = k + 1
                    /\ UNCHANGED <<pc, out, exit_code>>
    /\ UNCHANGED <<client, prs, example_diff, i, auto_approve_all, typed,
                   assigned_prs, inputVars, apiVars>>

\* MatchReturn as it would be with the result of find_matching_prs not assigned to prs
MatchReturn_keeps_candidates ==
    /\ pc = "matching"
    /\ k > Len(prs)
    /\ prs' = prs
    /\ IF matching_prs = <<>>
       THEN Exit(0, <<Line("No PRs with matching diff found")>>)
            /\ UNCHANGED <<i, auto_approve_all>>
       ELSE /\ out' = out \o <<Line("Found matching PRs")>>
                          \o [j \in 1..Len(matching_prs) |->
                                 PrLine("Found", matching_prs[j], 0)]
            /\ auto_approve_all' = FALSE
            /\ i' = 1
            /\ pc' = "review"
            /\ UNCHANGED exit_code
    /\ UNCHANGED <<client, example_diff, k, matching_prs, fetched, requests, typed,
                   assigned_prs, inputVars, apiVars>>

\* lines 133, 179-192: find_matching_prs returns; list the matches
MatchReturn ==
    /\ pc = "matching"
    /\ k > Len(prs)
    /\ prs' = matching_prs
    /\ IF matching_prs = <<>>
       THEN Exit(0, <<Line("No PRs with matching diff found")>>)
            /\ UNCHANGED <<i, auto_approve_all>>
       ELSE /\ out' = out \o <<Line("Found matching PRs")>>
                          \o [j \in 1..Len(matching_prs) |->
                                 PrLine("Found", matching_prs[j], 0)]
            /\ auto_approve_all' = FALSE
            /\ i' = 1
            /\ pc' = "review"
            /\ UNCHANGED exit_code
    /\ UNCHANGED <<client, example_diff, k, matching_prs, fetched, requests, typed,
                   assigned_prs, inputVars, apiVars>>

\* lines 194-199: the head of the review loop
ReviewNext ==
    /\ pc = "review"
    /\ IF i > Len(prs)
       THEN Exit(0, <<>>)
       ELSE /\ out' = Append(out, PrLine("Process", prs[i], i))
            /\ pc' = IF auto_approve_all THEN "approve" ELSE "prompt"
            /\ UNCHANGED exit_code
    /\ UNCHANGED <<client, prs, example_diff, k, matching_prs, fetched, i,
                   auto_approve_all, requests, typed, assigned_prs, inputVars, apiVars>>

\* Prompt as it would be with `continue` in place of `break` under `s`
Prompt_stop_continues ==
    /\ pc = "prompt"
    /\ \E answer \in Answers :
        LET confirmation == lower(strip(answer))
        IN  /\ typed' = answer
            /\ IF confirmation = <<"s">>
               THEN /\ out' = out \o <<PromptLine(i), LoopLine("Stopped processing.", i)>>
                    /\ i' = i + 1
                    /\ pc' = "review"
                    /\ UNCHANGED <<auto_approve_all, exit_code>>
               ELSE IF confirmation = <<"a">>
               THEN /\ auto_approve_all' = TRUE
                    /\ out' = out \o <<PromptLine(i),
                                       LoopLine("Auto-approving all remaining PRs...", i)>>
                    /\ pc' = "approve"
                    /\ UNCHANGED <<i, exit_code>>
               ELSE IF confirmation \notin {<<"y">>, yes}
               THEN /\ out' = out \o <<PromptLine(i), PrLine("Skipped", prs[i], i)>>
                    /\ i' = i + 1
                    /\ pc' = "review"
                    /\ UNCHANGED <<auto_approve_all, exit_code>>
               ELSE /\ out' = Append(out, PromptLine(i))
                    /\ pc' = "approve"
                    /\ UNCHANGED <<i, auto_approve_all, exit_code>>
    /\ UNCHANGED <<client, prs, example_diff, k, matching_prs, fetched, requests,
                   assigned_prs, inputVars, apiVars>>

\* Prompt as it would be without `auto_approve_all = True` under `a`
Prompt_all_once ==
    /\ pc = "prompt"
    /\ \E answer \in Answers :
        LET confirmation == lower(strip(answer))
        IN  /\ typed' = answer
            /\ IF confirmation = <<"s">>
               THEN Exit(0, <<PromptLine(i), LoopLine("Stopped processing.", i)>>)
                    /\ UNCHANGED <<i, auto_approve_all>>
               ELSE IF confirmation = <<"a">>
               THEN /\ out' = out \o <<PromptLine(i),
                                       LoopLine("Auto-approving all remaining PRs...", i)>>
                    /\ pc' = "approve"
                    /\ UNCHANGED <<i, auto_approve_all, exit_code>>
               ELSE IF confirmation \notin {<<"y">>, yes}
               THEN /\ out' = out \o <<PromptLine(i), PrLine("Skipped", prs[i], i)>>
                    /\ i' = i + 1
                    /\ pc' = "review"
                    /\ UNCHANGED <<auto_approve_all, exit_code>>
               ELSE /\ out' = Append(out, PromptLine(i))
                    /\ pc' = "approve"
                    /\ UNCHANGED <<i, auto_approve_all, exit_code>>
    /\ UNCHANGED <<client, prs, example_diff, k, matching_prs, fetched, requests,
                   assigned_prs, inputVars, apiVars>>

\* Prompt as it would be with the test `confirmation in ['n', 'no']` for the skip
Prompt_default_yes ==
    /\ pc = "prompt"
    /\ \E answer \in Answers :
        LET confirmation == lower(strip(answer))
        IN  /\ typed' = answer
            /\ IF confirmation = <<"s">>
               THEN Exit(0, <<PromptLine(i), LoopLine("Stopped processing.", i)>>)
                    /\ UNCHANGED <<i, auto_approve_all>>
               ELSE IF confirmation = <<"a">>
               THEN /\ auto_approve_all' = TRUE
                    /\ out' = out \o <<PromptLine(i),
                                       LoopLine("Auto-approving all remaining PRs...", i)>>
                    /\ pc' = "approve"
                    /\ UNCHANGED <<i, exit_code>>
               ELSE IF confirmation \in {<<"n">>, <<"n", "o">>}
               THEN /\ out' = out \o <<PromptLine(i), PrLine("Skipped", prs[i], i)>>
                    /\ i' = i + 1
                    /\ pc' = "review"
                    /\ UNCHANGED <<auto_approve_all, exit_code>>
               ELSE /\ out' = Append(out, PromptLine(i))
                    /\ pc' = "approve"
                    /\ UNCHANGED <<i, auto_approve_all, exit_code>>
    /\ UNCHANGED <<client, prs, example_diff, k, matching_prs, fetched, requests,
                   assigned_prs, inputVars, apiVars>>

\* lines 200-210: "Approve and merge? (y/N/s=stop/a=all): "
Prompt ==
    /\ pc = "prompt"
    /\ \E answer \in Answers :
        LET confirmation == lower(strip(answer))
        IN  /\ typed' = answer
            /\ IF confirmation = <<"s">>
               THEN Exit(0, <<PromptLine(i), LoopLine("Stopped processing.", i)>>)
                    /\ UNCHANGED <<i, auto_approve_all>>
               ELSE IF confirmation = <<"a">>
               THEN /\ auto_approve_all' = TRUE
                    /\ out' = out \o <<PromptLine(i),
                                       LoopLine("Auto-approving all remaining PRs...", i)>>
                    /\ pc' = "approve"
                    /\ UNCHANGED <<i, exit_code>>
               ELSE IF confirmation \notin {<<"y">>, yes}
               THEN /\ out' = out \o <<PromptLine(i), PrLine("Skipped", prs[i], i)>>
                    /\ i' = i + 1
                    /\ pc' = "review"
                    /\ UNCHANGED <<auto_approve_all, exit_code>>
               ELSE /\ out' = Append(out, PromptLine(i))
                    /\ pc' = "approve"
                    /\ UNCHANGED <<i, auto_approve_all, exit_code>>
    /\ UNCHANGED <<client, prs, example_diff, k, matching_prs, fetched, requests,
                   assigned_prs, inputVars, apiVars>>

\* Approve as it would be outside the try block: the exception reaches main's handlers
Approve_uncaught ==
    /\ pc = "approve"
    /\ \E resp \in ApproveResponses :
        LET r == approve_pr(prs[i].html_url, resp)
        IN  /\ requests' = requests \o Exchange(r.sent, resp)
            /\ IF r.raised # "none"
               THEN Exit(1, <<PrLine("Approving", prs[i], i), ErrorLine(r.raised)>>)
                    /\ UNCHANGED i
               ELSE /\ out' = Append(out, PrLine("Approving", prs[i], i))
                    /\ pc' = "merge"
                    /\ UNCHANGED <<i, exit_code>>
    /\ UNCHANGED <<client, prs, example_diff, k, matching_prs, fetched,
                   auto_approve_all, typed, assigned_prs, inputVars, apiVars>>

\* Approve as it would be with a try/except of its own around approve_pr
Approve_then_merge_anyway ==
    /\ pc = "approve"
    /\ \E resp \in ApproveResponses :
        LET r == approve_pr(prs[i].html_url, resp)
        IN  /\ requests' = requests \o Exchange(r.sent, resp)
            /\ out' = Append(out, PrLine("Approving", prs[i], i))
            /\ pc' = "merge"
            /\ UNCHANGED i
    /\ UNCHANGED <<client, prs, example_diff, k, matching_prs, fetched,
                   auto_approve_all, exit_code, typed, assigned_prs, inputVars, apiVars>>

\* Approve as it would be with the print of line 213 after the call of line 214
Approve_prints_after ==
    /\ pc = "approve"
    /\ \E resp \in ApproveResponses :
        LET r == approve_pr(prs[i].html_url, resp)
        IN  /\ requests' = requests \o Exchange(r.sent, resp)
            /\ IF r.raised # "none"
               THEN /\ out' = Append(out, FailedLine(prs[i], r.text, i))
                    /\ i' = i + 1
                    /\ pc' = "review"
               ELSE /\ out' = Append(out, PrLine("Approving", prs[i], i))
                    /\ pc' = "merge"
                    /\ UNCHANGED i
    /\ UNCHANGED <<client, prs, example_diff, k, matching_prs, fetched,
                   auto_approve_all, exit_code, typed, assigned_prs, inputVars, apiVars>>

\* Approve as it would be with the failed approve tried again for the same match
Approve_retries ==
    /\ pc = "approve"
    /\ \E resp \in ApproveResponses :
        LET r == approve_pr(prs[i].html_url, resp)
        IN  /\ requests' = requests \o Exchange(r.sent, resp)
            /\ IF r.raised # "none"
               THEN /\ out' = out \o <<PrLine("Approving", prs[i], i),
                                       FailedLine(prs[i], r.text, i)>>
                    /\ Len(requests) < 3 * MaxItems + 2
                    /\ UNCHANGED <<i, pc>>
               ELSE /\ out' = Append(out, PrLine("Approving", prs[i], i))
                    /\ pc' = "merge"
                    /\ UNCHANGED i
    /\ UNCHANGED <<client, prs, example_diff, k, matching_prs, fetched,
                   auto_approve_all, exit_code, typed, assigned_prs, inputVars, apiVars>>

\* lines 212-214, 220-221: approve, or report the failure and go on
Approve ==
    /\ pc = "approve"
    /\ \E resp \in ApproveResponses :
        LET r == approve_pr(prs[i].html_url, resp)
        IN  /\ requests' = requests \o Exchange(r.sent, resp)
            /\ IF r.raised # "none"
               THEN /\ out' = out \o <<PrLine("Approving", prs[i], i),
                                       FailedLine(prs[i], r.text, i)>>
                    /\ i' = i + 1
                    /\ pc' = "review"
               ELSE /\ out' = Append(out, PrLine("Approving", prs[i], i))
                    /\ pc' = "merge"
                    /\ UNCHANGED i
    /\ UNCHANGED <<client, prs, example_diff, k, matching_prs, fetched,
                   auto_approve_all, exit_code, typed, assigned_prs, inputVars, apiVars>>

\* Merge as it would be outside the try block: the exception reaches main's handlers
Merge_uncaught ==
    /\ pc = "merge"
    /\ \E resp \in PlainResponses :
        LET r == merge_pr(prs[i].html_url, resp)
        IN  /\ requests' = requests \o Exchange(r.sent, resp)
            /\ IF r.raised # "none"
               THEN Exit(1, <<PrLine("Merging", prs[i], i), ErrorLine(r.raised)>>)
                    /\ UNCHANGED i
               ELSE /\ out' = out \o <<PrLine("Merging", prs[i], i),
                                       PrLine("Successfully processed", prs[i], i)>>
                    /\ i' = i + 1
                    /\ pc' = "review"
                    /\ UNCHANGED exit_code
    /\ UNCHANGED <<client, prs, example_diff, k, matching_prs, fetched,
                   auto_approve_all, typed, assigned_prs, inputVars, apiVars>>

\* lines 216-221: merge, report success or failure, and go on
Merge ==
    /\ pc = "merge"
    /\ \E resp \in PlainResponses :
        LET r == merge_pr(prs[i].html_url, resp)
        IN  /\ requests' = requests \o Exchange(r.sent, resp)
            /\ out' = out \o <<PrLine("Merging", prs[i], i),
                               IF r.raised # "none"
                               THEN FailedLine(prs[i], r.text, i)
                               ELSE PrLine("Successfully processed", prs[i], i)>>
            /\ i' = i + 1
            /\ pc' = "review"
    /\ UNCHANGED <<client, prs, example_diff, k, matching_prs, fetched,
                   auto_approve_all, exit_code, typed, assigned_prs, inputVars, apiVars>>

Next ==
    \/ Construct
    \/ Search
    \/ FetchExample
    \/ ConfirmExample
    \/ MatchFetch
    \/ MatchReturn
    \/ ReviewNext
    \/ Prompt
    \/ Approve
    \/ Merge

Spec == Init /\ [][Next]_vars

(***************************************************************************)
(* Vocabulary of the properties.                                           *)
(***************************************************************************)
\* some line of the output says `msg`
Printed(msg) == \E n \in 1..Len(out) : out[n].msg = msg

\* some line printed by position j of the review loop says `msg`
PrintedAt(msg, j) == \E n \in 1..Len(out) : out[n].msg = msg /\ out[n].at = j

\* the decimal text of a PR number of the model
NumText(n) == <<(<<"1", "2", "3", "4", "5", "6", "7", "8", "9">>)[n]>>

\* an HTTP request to endpoint `api` of the given PR was issued
Requested(api, pr) ==
    \E n \in 1..Len(requests) :
        /\ requests[n].api = api
        /\ requests[n].owner = <<"o">>
        /\ requests[n].repo = <<"r">>
        /\ requests[n].pr_number = NumText(pr.number)

\* the number of requests issued to endpoint `api`
CountRequests(api) == Cardinality({n \in 1..Len(requests) : requests[n].api = api})

\* the states of the driver, in the words of its state machine
DONE == pc = "exit" /\ exit_code = 0 /\ ~Printed("Aborted.")
ABORTED == pc = "exit" /\ exit_code = 0 /\ Printed("Aborted.")
Reviewing == Printed("Found matching PRs")

\* the approve or the merge of the match at position j failed
FailedAt(j) == PrintedAt("Failed to process", j)

\* the match at position j was reached: its prompt is or was shown, or its approve is
\* or was under way
ReachedAt(j) ==
    \/ PrintedAt("Approve and merge?", j)
    \/ PrintedAt("Approving", j)
    \/ (pc \in {"prompt", "approve"} /\ i = j)

\* `answer` is y or yes, in any case, between leading and trailing whitespace
SameLetter(c, letter) ==
    \/ c = letter
    \/ (letter = "y" /\ c = "Y")
    \/ (letter = "e" /\ c = "E")
    \/ (letter = "s" /\ c = "S")
    \/ (letter = "a" /\ c = "A")

Spells(answer, word) ==
    \E lo \in 1..(Len(answer) + 1) :
        /\ lo + Len(word) - 1 <= Len(answer)
        /\ \A j \in 1..Len(word) : SameLetter(answer[lo + j - 1], word[j])
        /\ \A j \in 1..Len(answer) :
              (j < lo \/ j > lo + Len(word) - 1) => answer[j] \in {" ", "\t", "\n"}

Affirmative(answer) == Spells(answer, <<"y">>) \/ Spells(answer, <<"y", "e", "s">>)

(***************************************************************************)
(* C1.  A failure of approve or of merge for one match never aborts the    *)
(* batch: the process does not exit with an error, the match after the     *)
(* failing one is the next one of the loop and is reached (prompted, or    *)
(* processed under auto-approve-all), and the run ends in DONE.            *)
(***************************************************************************)
C1_FailureNeverAborts ==
    \A j \in 1..Len(prs) :
        FailedAt(j) =>
            /\ exit_code # 1
            /\ pc = "exit" => DONE
            /\ j < Len(prs) => ReachedAt(j + 1) \/ (pc = "review" /\ i = j + 1)

C1_Witness ==
    /\ DONE
    /\ Len(prs) = 3
    /\ FailedAt(1)
    /\ FailedAt(2)
    /\ PrintedAt("Approve and merge?", 2)
    /\ PrintedAt("Approving", 3)
    /\ CountRequests("merge") = 2

(***************************************************************************)
(* C2.  After the answer `s` at the prompt of match j the driver is in     *)
(* DONE, no approve or merge request was issued for match j or a later     *)
(* match, and nothing was prompted or printed for a later match: the       *)
(* "Stopped processing." line is the last line of the output.              *)
(***************************************************************************)
C2_StopLeavesRestUntouched ==
    \A j \in 1..Len(prs) :
        PrintedAt("Stopped processing.", j) =>
            /\ DONE
            /\ out[Len(out)].msg = "Stopped processing."
            /\ \A m \in j..Len(prs) :
                  /\ ~Requested("reviews", prs[m])
                  /\ ~Requested("merge", prs[m])
                  /\ m > j => \A n \in 1..Len(out) : out[n].at # m

C2_Witness ==
    /\ Len(prs) = 3
    /\ PrintedAt("Stopped processing.", 2)
    /\ Requested("merge", prs[1])
    /\ Spells(typed, <<"s">>)

(***************************************************************************)
(* C3.  After the answer `a` at the prompt of match j the auto-approve-all *)
(* flag is set and stays set, no further prompt is shown, every match from *)
(* j on that the loop has passed had its approve requested and, unless     *)
(* that match was reported as failed, its merge too, and the loop runs to  *)
(* the last match whatever fails on the way.                               *)
(***************************************************************************)
C3_AutoApproveAll ==
    \A j \in 1..Len(prs) :
        PrintedAt("Auto-approving all remaining PRs...", j) =>
            /\ auto_approve_all
            /\ pc # "prompt"
            /\ \A m \in (j + 1)..Len(prs) : ~PrintedAt("Approve and merge?", m)
            /\ \A m \in j..Len(prs) :
                  /\ (m < i \/ (m = i /\ pc = "merge")) => Requested("reviews", prs[m])
                  /\ m < i => Requested("merge", prs[m]) \/ FailedAt(m)
            /\ pc = "exit" => DONE /\ i = Len(prs) + 1

C3_Witness ==
    /\ DONE
    /\ Len(prs) = 3
    /\ PrintedAt("Auto-approving all remaining PRs...", 1)
    /\ FailedAt(2)
    /\ ~Requested("merge", prs[2])
    /\ Requested("merge", prs[3])

(***************************************************************************)
(* C4.  An answer to "Continue with this diff?" that is not y or yes (in   *)
(* any case, trimmed) puts the driver in ABORTED, and only such an answer  *)
(* does; in ABORTED the process has exit status 0, the only diff fetched   *)
(* is the example's and no approve or merge request was issued.            *)
(***************************************************************************)
C4_DeclinedExampleAborts ==
    /\ (Printed("Continue with this diff?") /\ ~Printed("Approve and merge?"))
          => (ABORTED <=> ~Affirmative(typed))
    /\ ABORTED =>
          /\ exit_code = 0
          /\ fetched = <<>>
          /\ CountRequests("pulls") = 1
          /\ CountRequests("reviews") = 0
          /\ CountRequests("merge") = 0

C4_Witness ==
    /\ ABORTED
    /\ typed = <<"y", "y">>
    /\ Len(prs) = 3

(***************************************************************************)
(* C5 as stated.  The process exits non-zero only on an error during       *)
(* setup, the search or the fetch of the example diff, that is before the  *)
(* matching pass began.                                                    *)
(***************************************************************************)
C5_NonZeroOnlyBeforeMatching ==
    exit_code = 1 => ~Printed("Searching for matching PRs...")

(***************************************************************************)
(* C5 as amended.  The process exits non-zero only on an error (missing    *)
(* credential, invalid PR URL, transport failure) during setup, the        *)
(* search, the fetch of the example diff or the matching pass, the error   *)
(* message being the last line printed; once a match list exists the exit  *)
(* status is 0, as it is after an abort at the example prompt, after a     *)
(* stop and after per-PR approve or merge failures.                        *)
(***************************************************************************)
C5_NonZeroOnlyBeforeReview ==
    /\ pc = "exit" <=> exit_code \in {0, 1}
    /\ pc = "exit" =>
          (exit_code = 1 <=> out[Len(out)].msg \in {"Error", "API request failed"})
    /\ exit_code = 1 =>
          /\ ~Reviewing
          /\ ~Printed("No PRs with matching diff found")
          /\ ~Printed("No PRs assigned to you")
          /\ CountRequests("reviews") = 0
          /\ CountRequests("merge") = 0
    /\ (pc = "exit" /\ (Printed("Aborted.") \/ Printed("Stopped processing.")
                        \/ Printed("Failed to process")))
          => exit_code = 0

C5_Witness ==
    /\ exit_code = 1
    /\ Printed("Searching for matching PRs...")
    /\ Len(fetched) = 2
    /\ Len(prs) = 3

(***************************************************************************)
(* C6.  While the matching pass runs no fetch of it has failed; a failed   *)
(* fetch ends the run with exit status 1 on the spot: no later candidate   *)
(* is fetched, the candidates are not replaced by a (partial) match list,  *)
(* the review loop is not entered and no approve or merge is requested.    *)
(* A match list exists only when every candidate's diff was fetched.       *)
(***************************************************************************)
C6_FetchFailureAbortsMatching ==
    /\ pc = "matching" =>
          /\ k = Len(fetched) + 1
          /\ CountRequests("pulls") = 1 + Len(fetched)
    /\ (Reviewing \/ Printed("No PRs with matching diff found")) =>
          /\ k = Len(fetched) + 1
          /\ CountRequests("pulls") = 1 + Len(fetched)
          /\ exit_code # 1
    /\ (Printed("Searching for matching PRs...") /\ exit_code = 1) =>
          /\ pc = "exit"
          /\ k = Len(fetched) + 1
          /\ k <= Len(prs)
          /\ CountRequests("pulls") <= 1 + k
          /\ ~Reviewing
          /\ ~Printed("No PRs with matching diff found")
          /\ \A n \in 1..Len(out) : out[n].at = 0
          /\ CountRequests("reviews") = 0
          /\ CountRequests("merge") = 0

C6_Witness ==
    /\ exit_code = 1
    /\ Printed("Searching for matching PRs...")
    /\ Len(prs) = 3
    /\ Len(fetched) = 1
    /\ Len(matching_prs) = 1
    /\ CountRequests("pulls") = 3

(***************************************************************************)
(* C7.  find_matching_prs keeps exactly the candidates whose fetched diff, *)
(* without its leading and trailing whitespace, is the example diff        *)
(* without its leading and trailing whitespace, in the candidates' order;  *)
(* a diff equal to the example diff, or equal to it up to a final newline, *)
(* is kept; the list it returns is what main goes on with.                 *)
(***************************************************************************)
NonBlank(d) == {j \in 1..Len(d) : d[j] \notin {" ", "\t", "\n"}}

Trimmed(d) ==
    IF NonBlank(d) = {} THEN <<>>
    ELSE LET lo == CHOOSE j \in NonBlank(d) : \A h \in NonBlank(d) : j <= h
             hi == CHOOSE j \in NonBlank(d) : \A h \in NonBlank(d) : j >= h
         IN  SubSeq(d, lo, hi)

\* the elements of seq at the positions in J, in order
Pick(seq, J) ==
    LET F[n \in 0..Len(seq)] ==
            IF n = 0 THEN <<>>
            ELSE IF n \in J THEN Append(F[n - 1], seq[n]) ELSE F[n - 1]
    IN  F[Len(seq)]

C7_MatchesAreTrimEqualInOrder ==
    /\ pc = "matching" =>
          /\ matching_prs =
                Pick(prs, {j \in 1..Len(fetched) :
                              Trimmed(fetched[j]) = Trimmed(example_diff)})
          /\ \A j \in 1..Len(fetched) :
                (\/ fetched[j] = example_diff
                 \/ fetched[j] \o <<"\n">> = example_diff
                 \/ fetched[j] = example_diff \o <<"\n">>)
                   => \E m \in 1..Len(matching_prs) : matching_prs[m] = prs[j]
    /\ (Reviewing \/ Printed("No PRs with matching diff found")) => prs = matching_prs

C7_Witness ==
    /\ pc = "matching"
    /\ Len(prs) = 3
    /\ k = 4
    /\ matching_prs = <<prs[1], prs[3]>>
    /\ fetched[1] = example_diff
    /\ fetched[3] # example_diff

(***************************************************************************)
(* Vocabulary of the properties of the client's operations.                *)
(***************************************************************************)
Called(ret) == ret # NotCalled

\* the operation got past its validation: it sent its request
Accepted(ret) == ret.raised # "ValueError" /\ Len(ret.sent) = 1

\* the (owner, repo, number) the operation put in its request
Triple(ret) == <<ret.sent[1].owner, ret.sent[1].repo, ret.sent[1].pr_number>>

Rets == {ret_diff, ret_approve, ret_merge}

\* the number of "/"-delimited components of url once its trailing slashes are dropped
Slashes(url) == Cardinality({j \in 1..Len(url) : url[j] = "/"})

TrailingSlashes(url) ==
    Cardinality({j \in 1..Len(url) : \A h \in j..Len(url) : url[h] = "/"})

Components(url) == Slashes(url) - TrailingSlashes(url) + 1

\* some "/"-delimited component of url is `pull`
HasPullSegment(url) ==
    LET u == <<"/">> \o url \o <<"/">>
    IN  \E j \in 1..(Len(u) - 5) :
            u[j] = "/" /\ SubSeq(u, j + 1, j + 4) = <<"p", "u", "l", "l">> /\ u[j + 5] = "/"

\* every URL https://host/OWNER/REPO/pull/N of the model, with or without a trailing
\* slash, and the (OWNER, REPO, N) it was written from
PullUrlForms ==
    {[host |-> host, url |-> WebUrl(host, owner, repo, pull, n) \o trail,
      triple |-> <<owner, repo, n>>] :
        host \in Hosts, owner \in PathSegments, repo \in PathSegments, n \in PathSegments,
        trail \in {<<>>, <<"/">>}}

(***************************************************************************)
(* C8 as stated.  For every URL https://host/OWNER/REPO/pull/N, whatever   *)
(* the host, with or without a trailing slash, each operation accepts the  *)
(* URL and addresses exactly (OWNER, REPO, N).                             *)
(***************************************************************************)
C8_AnyHostDecomposes ==
    \A f \in PullUrlForms :
        pr_url = f.url =>
            \A ret \in Rets : Called(ret) => Accepted(ret) /\ Triple(ret) = f.triple

(***************************************************************************)
(* C8 as amended.  For every URL https://github.com/OWNER/REPO/pull/N      *)
(* (a URL of that form whose text contains `github.com`), with or without  *)
(* a trailing slash, each operation accepts the URL and addresses exactly  *)
(* (OWNER, REPO, N).                                                       *)
(***************************************************************************)
C8_GithubUrlDecomposes ==
    \A f \in PullUrlForms :
        (f.host = github_com /\ pr_url = f.url) =>
            \A ret \in Rets : Called(ret) => Accepted(ret) /\ Triple(ret) = f.triple

C8_Witness ==
    /\ pr_url = WebUrl(github_com, <<"o">>, <<"r">>, pull, <<"5">>) \o <<"/">>
    /\ \A ret \in Rets : Called(ret)
    /\ ret_diff.raised = "none"
    /\ Triple(ret_diff) = <<(<<"o">>), (<<"r">>), (<<"5">>)>>

(***************************************************************************)
(* C9.  A URL without a `pull` component, or with fewer than 7 components, *)
(* is rejected by get_pr_diff, approve_pr and merge_pr with ValueError     *)
(* before any request: no HTTP request is issued for it.                   *)
(***************************************************************************)
C9_MalformedUrlRejectedUpFront ==
    (~HasPullSegment(pr_url) \/ Components(pr_url) < 7) =>
        /\ requests = <<>>
        /\ \A ret \in Rets : Called(ret) => ret.raised = "ValueError" /\ ret.sent = <<>>

C9_Witness ==
    /\ ~HasPullSegment(pr_url)
    /\ Components(pr_url) = 7
    /\ contains(github_com, pr_url)
    /\ \A ret \in Rets : Called(ret)
    /\ requests = <<>>

(***************************************************************************)
(* C10.  get_pr_diff, approve_pr and merge_pr validate a URL alike: those  *)
(* of them that were called on it either all rejected it or all accepted   *)
(* it and addressed the same (owner, repo, number).                        *)
(***************************************************************************)
C10_SameValidationInAllThree ==
    \A a \in Rets, b \in Rets :
        (Called(a) /\ Called(b)) =>
            /\ Accepted(a) <=> Accepted(b)
            /\ (a.raised = "ValueError") <=> (b.raised = "ValueError")
            /\ Accepted(a) => Triple(a) = Triple(b)

C10_Witness ==
    /\ \A ret \in Rets : Called(ret) /\ Accepted(ret)
    /\ pr_url[Len(pr_url)] = "/"
    /\ Components(pr_url) = 7
    /\ ret_approve.raised = "RequestException"
    /\ ret_merge.raised = "none"

(***************************************************************************)
(* C11.  search_assigned_prs returns exactly the PRs of the remote's       *)
(* search result whose title starts with title_prefix, character for       *)
(* character (so case-sensitively, and from the title's first character),  *)
(* in the order of the remote's result; it issues one search request.      *)
(* Titles "abc: fix", "xyz: other", "abc: cleanup" with prefix abc yield   *)
(* the first and the third; "abc-feature" is kept for abc, and neither     *)
(* for ABC nor for bc.                                                     *)
(***************************************************************************)
\* `prefix` is the beginning of `title`
HasPrefix(title, prefix) ==
    /\ Len(prefix) <= Len(title)
    /\ \A j \in 1..Len(prefix) : title[j] = prefix[j]

Titles(list) == [j \in 1..Len(list) |-> list[j].title]

C11_SearchKeepsPrefixedInOrder ==
    ret_search # NotCalled =>
        /\ Len(requests) = 1
        /\ requests[1].api = "search/issues"
        /\ ret_search.raised = "none" <=> requests[1].ok
        /\ ret_search.raised = "none" =>
              /\ ret_search.value =
                     Pick(remote_items,
                          {j \in 1..Len(remote_items) :
                               HasPrefix(remote_items[j].title, arg_title_prefix)})
              /\ (/\ Titles(remote_items) = <<abc_fix, xyz_other, abc_cleanup>>
                  /\ arg_title_prefix = <<"a", "b", "c">>)
                    => Titles(ret_search.value) = <<abc_fix, abc_cleanup>>
              /\ arg_title_prefix \in {<<"A", "B", "C">>, <<"b", "c">>}
                    => abc_feature \notin Range(Titles(ret_search.value))
              /\ (\E j \in 1..Len(remote_items) : remote_items[j].title = abc_feature)
                    /\ arg_title_prefix = <<"a", "b", "c">>
                    => abc_feature \in Range(Titles(ret_search.value))

\* the example scenario was run
C11_Witness ==
    /\ ret_search # NotCalled
    /\ ret_search.raised = "none"
    /\ Titles(remote_items) = <<abc_fix, xyz_other, abc_cleanup>>
    /\ arg_title_prefix = <<"a", "b", "c">>
    /\ Len(ret_search.value) = 2

(***************************************************************************)
(* C12.  At the prompt of match i (shown only while auto_approve_all is    *)
(* unset), an answer that is none of y, yes, s, a (in any case, between    *)
(* whitespace) skips the match: the step issues no request, prints         *)
(* "Skipped" for the match and moves to position i + 1 with the flag still *)
(* unset; no approve or merge request is ever issued for a skipped match,  *)
(* and the match after it, if any, is the next one shown and prompted for. *)
(***************************************************************************)
Negative(answer) ==
    /\ ~Affirmative(answer)
    /\ ~Spells(answer, <<"s">>)
    /\ ~Spells(answer, <<"a">>)

C12_SkipStep ==
    (pc = "prompt" /\ Negative(typed')) =>
        /\ ~auto_approve_all /\ ~auto_approve_all'
        /\ requests' = requests
        /\ out' = out \o <<PromptLine(i), PrLine("Skipped", prs[i], i)>>
        /\ i' = i + 1
        /\ pc' = "review"
        /\ prs' = prs

C12_Skipped ==
    \A j \in 1..Len(prs) :
        PrintedAt("Skipped", j) =>
            /\ ~Requested("reviews", prs[j])
            /\ ~Requested("merge", prs[j])
            /\ ~PrintedAt("Approving", j)
            /\ i > j
            /\ j < Len(prs) =>
                  \/ pc = "review" /\ i = j + 1 /\ ~auto_approve_all
                  \/ pc = "prompt" /\ i = j + 1
                  \/ PrintedAt("Approve and merge?", j + 1)

C12_NegativeAnswerSkips == [][C12_SkipStep]_vars /\ []C12_Skipped

\* the first match was skipped with an empty answer and the second one prompted for
C12_Witness ==
    /\ Len(prs) >= 2
    /\ PrintedAt("Skipped", 1)
    /\ pc = "prompt"
    /\ i = 2
    /\ typed = <<>>

(***************************************************************************)
(* C13.  With no --token argument and GITHUB_TOKEN unset or empty, the     *)
(* constructor raises: the run never has a client and never issues an HTTP *)
(* request; its only step prints an error and exits with status 1.         *)
(***************************************************************************)
NoCredential == arg_token = None /\ GITHUB_TOKEN \in {None, ""}

C13_NoCredentialFailsFast ==
    NoCredential =>
        /\ requests = <<>>
        /\ client = "none"
        /\ pc \in {"construct", "exit"}
        /\ pc = "construct" => ENABLED Construct
        /\ pc = "exit" => exit_code = 1 /\ out = <<Line("Error")>>

\* the run with GITHUB_TOKEN set to the empty string has exited
C13_Witness ==
    /\ arg_token = None
    /\ GITHUB_TOKEN = ""
    /\ pc = "exit"
    /\ exit_code = 1

(***************************************************************************)
(* C14.  When the search succeeds and no PR of its result has the title    *)
(* prefix, that step prints the notice and ends the run in DONE with exit  *)
(* status 0; the search is then the only request of the run, the notice    *)
(* its only output: no exemplar diff fetched, no prompt shown, no approve  *)
(* or merge request.  The exemplar is fetched only after a search that     *)
(* returned some PR.                                                       *)
(***************************************************************************)
C14_EmptySearchStep ==
    (/\ pc = "search"
     /\ Len(requests') = 1
     /\ requests'[1].ok
     /\ prs' = <<>>) =>
        /\ pc' = "exit"
        /\ exit_code' = 0
        /\ out' = <<TextLine("No PRs assigned to you", arg_title_prefix)>>

C14_AfterEmptySearch ==
    /\ Printed("No PRs assigned to you") =>
          /\ DONE
          /\ Len(requests) = 1
          /\ requests[1].api = "search/issues"
          /\ requests[1].ok
          /\ Len(out) = 1
          /\ prs = <<>>
          /\ example_diff = <<>>
          /\ ~Printed("Example PR diff")
          /\ ~Printed("Continue with this diff?")
          /\ ~Printed("Approve and merge?")
          /\ CountRequests("pulls") = 0
          /\ CountRequests("reviews") = 0
          /\ CountRequests("merge") = 0
    /\ pc \in {"fetch_example", "confirm"} => prs # <<>>
    /\ CountRequests("pulls") > 0 => Len(requests) > 1 /\ requests[1].ok

C14_EmptySearchIsDone == [][C14_EmptySearchStep]_vars /\ []C14_AfterEmptySearch

\* a search for the prefix ab found nothing and the run is over
C14_Witness ==
    /\ Printed("No PRs assigned to you")
    /\ arg_title_prefix = <<"a", "b">>
    /\ pc = "exit"
    /\ exit_code = 0

(***************************************************************************)
(* C15 as stated.  When the exemplar URL given on the command line is of   *)
(* invalid shape, the run issues no HTTP request at all, the search        *)
(* request included.                                                       *)
(***************************************************************************)
\* args.example_pr is not of the shape https://<host>/<owner>/<repo>/pull/<number>
MalformedExemplar ==
    Components(arg_example_pr) < 7 \/ ~HasPullSegment(arg_example_pr)

C15_MalformedExemplarNoRequest == MalformedExemplar => requests = <<>>

(***************************************************************************)
(* C15 as the code has it.  The exemplar URL is looked at only when        *)
(* get_pr_diff is called with it, after the search: a malformed exemplar   *)
(* URL is rejected by that call before it issues a request of its own, and *)
(* the run exits with status 1 having issued the search request and no     *)
(* other.  When the search fails or returns no PR with the prefix, the     *)
(* exemplar URL is never looked at.                                        *)
(***************************************************************************)
C15_RejectStep ==
    (pc = "fetch_example" /\ MalformedExemplar) =>
        /\ requests' = requests
        /\ pc' = "exit"
        /\ exit_code' = 1
        /\ out' = Append(out, Line("Error"))

C15_OnlySearchRequested ==
    MalformedExemplar =>
        /\ Len(requests) <= 1
        /\ \A n \in 1..Len(requests) : requests[n].api = "search/issues"
        /\ pc \in {"construct", "search", "fetch_example", "exit"}
        /\ pc = "fetch_example" => Len(requests) = 1
        /\ (pc = "exit" /\ prs # <<>>) => (exit_code = 1 /\ Printed("Error"))
        /\ (pc = "exit" /\ exit_code = 0) => Printed("No PRs assigned to you")
        /\ example_diff = <<>>

C15_MalformedExemplarRejectedAfterSearch ==
    [][C15_RejectStep]_vars /\ []C15_OnlySearchRequested

\* the malformed exemplar URL was rejected, after the search
C15_Witness ==
    /\ MalformedExemplar
    /\ pc = "exit"
    /\ exit_code = 1
    /\ prs # <<>>
    /\ Len(requests) = 1
    /\ Printed("Error")

(***************************************************************************)
(* C16.  Every approve (reviews) or merge request of a run is for a PR     *)
(* that the search returned and whose title has the title prefix, is       *)
(* issued after the user affirmed the exemplar diff, is for a candidate    *)
(* whose trimmed diff, as fetched by the matching pass, equals the trimmed *)
(* exemplar diff, and is for a match whose prompt the user answered with   *)
(* y, yes or a, or that comes after a match answered with a.  Such a       *)
(* request is issued only by the approve or merge step of the current      *)
(* match, which is entered only on such an answer or with the flag set.    *)
(***************************************************************************)
\* request `req` is about PR object `pr`
IsFor(req, pr) ==
    /\ req.owner = <<"o">>
    /\ req.repo = <<"r">>
    /\ req.pr_number = NumText(pr.number)

\* the prompt of position j was shown and answered with neither a skip nor a stop
Accepted_at(j) ==
    /\ PrintedAt("Approve and merge?", j)
    /\ ~PrintedAt("Skipped", j)
    /\ ~PrintedAt("Stopped processing.", j)

C16_Justified ==
    /\ pc = "matching" => assigned_prs = prs
    /\ \A n \in 1..Len(requests) :
          requests[n].api \in {"reviews", "merge"} =>
              /\ Printed("Searching for matching PRs...")
              /\ \E c \in 1..Len(assigned_prs) :
                    /\ IsFor(requests[n], assigned_prs[c])
                    /\ HasPrefix(assigned_prs[c].title, arg_title_prefix)
                    /\ c <= Len(fetched)
                    /\ Trimmed(fetched[c]) = Trimmed(example_diff)
              /\ \E j \in 1..Len(prs) :
                    /\ IsFor(requests[n], prs[j])
                    /\ \/ Accepted_at(j)
                       \/ \E h \in 1..(j - 1) :
                             PrintedAt("Auto-approving all remaining PRs...", h)

C16_Step ==
    /\ (pc = "search" /\ pc' = "fetch_example") =>
          \A c \in 1..Len(prs') : HasPrefix(prs'[c].title, arg_title_prefix)
    /\ (pc = "confirm" /\ pc' = "matching") => Affirmative(typed')
    /\ (pc = "prompt" /\ pc' = "approve") =>
          (Affirmative(typed') \/ Spells(typed', <<"a">>))
    /\ (auto_approve_all' /\ ~auto_approve_all) =>
          (pc = "prompt" /\ Spells(typed', <<"a">>))
    /\ (pc' = "approve") => (pc = "prompt" \/ (pc = "review" /\ auto_approve_all))
    /\ (pc' = "merge") => pc = "approve"
    /\ (/\ requests' # requests
        /\ requests'[Len(requests')].api \in {"reviews", "merge"}) =>
          /\ pc \in {"approve", "merge"}
          /\ IsFor(requests'[Len(requests')], prs[i])

C16_RequestsAreJustified == [][C16_Step]_vars /\ []C16_Justified

\* of three candidates one did not match, one match was skipped, one was merged
C16_Witness ==
    /\ Len(assigned_prs) = 3
    /\ Len(prs) = 2
    /\ PrintedAt("Skipped", 1)
    /\ CountRequests("merge") = 1
    /\ Requested("merge", prs[2])

(***************************************************************************)
(* C17.  In the review loop the approve request of a match comes before    *)
(* its merge request: every merge request directly follows a successful    *)
(* approve request for the same PR.  After a failed approve request no     *)
(* merge request is issued for that PR; after a failed merge request the   *)
(* PR has its successful approve, no successful merge, and a "Failed to    *)
(* process" line and no "Successfully processed" line naming it.           *)
(***************************************************************************)
SamePr(a, b) == a.owner = b.owner /\ a.repo = b.repo /\ a.pr_number = b.pr_number

\* some line of the output says `msg` about the PR of request `req`
PrintedFor(msg, req) ==
    \E n \in 1..Len(out), j \in 1..Len(prs) :
        /\ out[n].msg = msg
        /\ out[n].at = j
        /\ out[n].number = prs[j].number
        /\ out[n].repo = req.repo
        /\ IsFor(req, prs[j])

C17_ApproveThenMerge ==
    \A n \in 1..Len(requests) :
        /\ requests[n].api = "merge" =>
              /\ n > 1
              /\ requests[n - 1].api = "reviews"
              /\ requests[n - 1].ok
              /\ SamePr(requests[n - 1], requests[n])
              /\ \A m \in 1..Len(requests) :
                    (requests[m].api = "merge" /\ SamePr(requests[m], requests[n])) => m = n
        /\ requests[n].api = "reviews" =>
              /\ PrintedFor("Approving", requests[n])
              /\ \A m \in 1..Len(requests) :
                    (requests[m].api = "reviews" /\ SamePr(requests[m], requests[n])) => m = n
        /\ (requests[n].api = "reviews" /\ ~requests[n].ok) =>
              /\ \A m \in 1..Len(requests) :
                    requests[m].api = "merge" => ~SamePr(requests[m], requests[n])
              /\ PrintedFor("Failed to process", requests[n])
              /\ ~PrintedFor("Merging", requests[n])
              /\ ~PrintedFor("Successfully processed", requests[n])
        /\ (requests[n].api = "merge" /\ ~requests[n].ok) =>
              /\ PrintedFor("Failed to process", requests[n])
              /\ ~PrintedFor("Successfully processed", requests[n])
              /\ exit_code # 1
        /\ (requests[n].api = "merge" /\ requests[n].ok) =>
              /\ PrintedFor("Successfully processed", requests[n])
              /\ ~PrintedFor("Failed to process", requests[n])

\* the approve of the first match failed, then the merge of the second one failed
C17_Witness ==
    /\ Len(prs) >= 2
    /\ CountRequests("reviews") = 2
    /\ CountRequests("merge") = 1
    /\ \E n \in 1..Len(requests) :
          /\ requests[n].api = "reviews"
          /\ ~requests[n].ok
          /\ IsFor(requests[n], prs[1])
    /\ \E n \in 1..Len(requests) :
          /\ requests[n].api = "merge"
          /\ ~requests[n].ok
          /\ IsFor(requests[n], prs[2])

(***************************************************************************)
(* C18 as stated.  Every failed approve or merge request of the review     *)
(* loop has a "Failed to process" line that names the PR and whose text    *)
(* names the action that failed.                                           *)
(***************************************************************************)
FailedRequests ==
    {n \in 1..Len(requests) : requests[n].api \in {"reviews", "merge"} /\ ~requests[n].ok}

\* the lines of the output that report the failure of request `req`
FailureLines(req) ==
    {m \in 1..Len(out) :
        /\ out[m].msg = "Failed to process"
        /\ out[m].repo = req.repo
        /\ NumText(out[m].number) = req.pr_number}

C18_FailureLineNamesPrAndAction ==
    \A n \in FailedRequests :
        \E m \in FailureLines(requests[n]) : requests[n].api \in Range(out[m].text)

(***************************************************************************)
(* C18 as the code has it.  Every failed approve or merge request of the   *)
(* review loop has exactly one "Failed to process" line; the line names    *)
(* the PR (repository name and number) and carries the exception's text,   *)
(* which names the request only for an error status.  The action that      *)
(* failed is told by the line printed just before it: "Approving" for the  *)
(* same PR when the approve failed, "Merging" for the same PR when the     *)
(* merge failed.  Every "Failed to process" line reports such a request.   *)
(***************************************************************************)
ProgressWord(api) == IF api = "reviews" THEN "Approving" ELSE "Merging"

C18_FailureLineFollowsProgressLine ==
    /\ \A n \in FailedRequests :
          /\ Cardinality(FailureLines(requests[n])) = 1
          /\ \A m \in FailureLines(requests[n]) :
                /\ m > 1
                /\ out[m - 1].msg = ProgressWord(requests[n].api)
                /\ out[m - 1].repo = out[m].repo
                /\ out[m - 1].number = out[m].number
                /\ out[m - 1].at = out[m].at
                /\ out[m].at \in 1..Len(prs)
                /\ out[m].repo = repo_name(prs[out[m].at])
                /\ out[m].number = prs[out[m].at].number
                /\ IsFor(requests[n], prs[out[m].at])
                /\ out[m].text # <<>>
                /\ requests[n].api \in Range(out[m].text)
                      <=> out[m].text[1] = "Error for url"
    /\ \A m \in 1..Len(out) :
          out[m].msg = "Failed to process" =>
              \E n \in FailedRequests : m \in FailureLines(requests[n])

\* a merge failed on a broken connection: its failure line does not name the request
C18_Witness ==
    \E n \in FailedRequests :
        /\ requests[n].api = "merge"
        /\ \E m \in FailureLines(requests[n]) :
              /\ out[m].text = <<"Connection aborted.">>
              /\ out[m - 1].msg = "Merging"

(***************************************************************************)
(* C19.  The driver terminates: every step of main strictly decreases a    *)
(* natural number (Rank, at most 5 * MaxItems + 8 at the start), every     *)
(* position but the final one has a next statement to run with its loop    *)
(* index in range, and the final position is DONE, ABORTED or an error     *)
(* exit.  The review loop visits the matches in order: i never decreases   *)
(* and moves by one, the "Process" lines name positions 1, 2, 3, ... in    *)
(* turn, a match is prompted for at most once, and at most one approve     *)
(* and one merge request is issued per match position.                     *)
(***************************************************************************)
Rank ==
    CASE pc = "construct" -> 5 * MaxItems + 8
      [] pc = "search" -> 5 * MaxItems + 7
      [] pc = "fetch_example" -> 5 * Len(prs) + 6
      [] pc = "confirm" -> 5 * Len(prs) + 5
      [] pc = "matching" -> 4 * Len(prs) + 4 + (Len(prs) + 1 - k)
      [] pc = "review" -> 4 * (Len(prs) + 1 - i) + 3
      [] pc = "prompt" -> 4 * (Len(prs) + 1 - i) + 2
      [] pc = "approve" -> 4 * (Len(prs) + 1 - i) + 1
      [] pc = "merge" -> 4 * (Len(prs) + 1 - i)
      [] OTHER -> 0

\* the lines of the output that say `msg`, as positions of the output
LinesSaying(msg) == {m \in 1..Len(out) : out[m].msg = msg}

C19_Step ==
    /\ Rank' < Rank
    /\ i' \in {i, i + 1}
    /\ pc # "exit"

C19_Positions ==
    /\ Rank \in 0..(5 * MaxItems + 8)
    /\ Len(prs) <= MaxItems
    /\ pc \in {"construct", "search", "fetch_example", "confirm", "matching", "review",
                "prompt", "approve", "merge", "exit"}
    /\ pc = "matching" => k \in 1..(Len(prs) + 1)
    /\ pc = "review" => i \in 1..(Len(prs) + 1)
    /\ pc \in {"prompt", "approve", "merge"} => i \in 1..Len(prs)
    /\ pc \in {"construct", "search"} => ENABLED Next
    /\ pc = "exit" => (DONE \/ ABORTED \/ exit_code = 1)
    /\ pc = "exit" <=> exit_code # -1

C19_InOrderAtMostOnce ==
    /\ \A m \in LinesSaying("Process") :
          out[m].at = Cardinality({n \in LinesSaying("Process") : n <= m})
    /\ \A m \in LinesSaying("Process") : out[m].at <= i
    /\ \A j \in 1..Len(prs) :
          Reviewing =>
              /\ Cardinality({m \in LinesSaying("Approve and merge?") : out[m].at = j}) <= 1
              /\ Cardinality({n \in 1..Len(requests) :
                                  requests[n].api = "reviews" /\ IsFor(requests[n], prs[j])}) <= 1
              /\ Cardinality({n \in 1..Len(requests) :
                                  requests[n].api = "merge" /\ IsFor(requests[n], prs[j])}) <= 1
    /\ CountRequests("reviews") <= Len(prs)
    /\ CountRequests("merge") <= CountRequests("reviews")

C19_DriverTerminatesInOrder ==
    [][C19_Step]_vars /\ [](C19_Positions /\ C19_InOrderAtMostOnce)

\* the run is over after the loop went through three matches
C19_Witness ==
    /\ pc = "exit"
    /\ Len(prs) = 3
    /\ i = 4
    /\ PrintedAt("Process", 3)
    /\ CountRequests("reviews") = 2
    /\ PrintedAt("Approve and merge?", 3)

(***************************************************************************)
(* C20.  colorize_diff colours line by line: the output has as many lines  *)
(* as the input, in the same order; a line beginning with +++ or --- comes *)
(* out between the bold escape sequence and the reset, one beginning with  *)
(* @@ between cyan and the reset, any other line beginning with + between  *)
(* green and the reset, any other line beginning with - between red and    *)
(* the reset, each with its own text unmodified in between; every other    *)
(* line comes out unchanged.                                               *)
(***************************************************************************)
\* the lines of a text: what lies between its line breaks
LinesOf(t) ==
    LET brk == {j \in 1..Len(t) : t[j] = "\n"}
        cut(n) == IF n = 0 THEN 0
                  ELSE IF n > Cardinality(brk) THEN Len(t) + 1
                  ELSE CHOOSE j \in brk : Cardinality({h \in brk : h <= j}) = n
    IN  [n \in 1..(Cardinality(brk) + 1) |-> SubSeq(t, cut(n - 1) + 1, cut(n) - 1)]

BeginsWith(line, n, ch) == Len(line) >= n /\ \A j \in 1..n : line[j] = ch

\* the escape sequence a line is to be wrapped in, "" for none
ColourOf(line) ==
    IF BeginsWith(line, 3, "+") \/ BeginsWith(line, 3, "-") THEN BOLD
    ELSE IF BeginsWith(line, 2, "@") THEN CYAN
    ELSE IF BeginsWith(line, 1, "+") THEN GREEN
    ELSE IF BeginsWith(line, 1, "-") THEN RED
    ELSE ""

C20_ColorizeLineByLine ==
    ret_color # NotCalled =>
        LET given == LinesOf(color_input)
            got == LinesOf(ret_color.value)
        IN  /\ Len(got) = Len(given)
            /\ \A n \in 1..Len(given) :
                  IF ColourOf(given[n]) = ""
                  THEN got[n] = given[n]
                  ELSE /\ Len(got[n]) = Len(given[n]) + 2
                       /\ got[n][1] = ColourOf(given[n])
                       /\ got[n][Len(got[n])] = RESET
                       /\ SubSeq(got[n], 2, Len(got[n]) - 1) = given[n]
            /\ \A n \in 1..Len(given) :
                  (BeginsWith(given[n], 1, "+") /\ ~BeginsWith(given[n], 3, "+"))
                      => got[n] = <<GREEN>> \o given[n] \o <<RESET>>
            /\ \A n \in 1..Len(given) :
                  (given[n] = <<>> \/ given[n][1] \notin {"+", "-", "@"})
                      => got[n] = given[n]

\* a file header and an added line went through
C20_Witness ==
    /\ color_input = <<"+", "+", "+", "\n", "+">>
    /\ ret_color # NotCalled
    /\ ret_color.value = <<BOLD, "+", "+", "+", RESET, "\n", GREEN, "+", RESET>>

====
